---- MODULE Spec2Model ----
(***************************************************************************)
(* Model of src/raw_ifd.rs: the on-disk codec of TIFF image file           *)
(* directories (RawIFDEntry, RawIFD) and of the chain of directories       *)
(* linked by 32-bit absolute offsets (read_raw_ifds, write_raw_ifds).      *)
(*                                                                         *)
(* The stream is the caller's Read/Write + Seek object.  It is modelled as *)
(* a record                                                                *)
(*    data : the bytes that were written, a function from positions        *)
(*    len  : the end of the stream (positions below len that were never    *)
(*           written read as 0, as in a file or a Cursor<Vec<u8>>)         *)
(*    pos  : the cursor, a u64                                             *)
(*    cap  : the size of the destination; a write past it is a write fault *)
(***************************************************************************)
EXTENDS Integers, Sequences, FiniteSets, TLC

\* ------------------------------------------------------------------------
\* Integer widths.  TLC's integers are 32 bits wide, so a u32 or u64 quantity
\* (a stream position, a link offset, an entry's count) is kept as two 16-bit
\* halves [hi, lo] standing for hi * 2^16 + lo.  A u32 has hi < 2^16; the hi
\* half of a u64 position is left unbounded above (no run comes near 2^64).
\* ------------------------------------------------------------------------
U16Max == 65535
TwoPow16 == U16Max + 1

W(n) == [hi |-> n \div TwoPow16, lo |-> n % TwoPow16]
WAdd(p, k) == [hi |-> p.hi + ((p.lo + k) \div TwoPow16), lo |-> (p.lo + k) % TwoPow16]
WSub(a, b) == (a.hi - b.hi) * TwoPow16 + (a.lo - b.lo)
WLt(a, b) == a.hi < b.hi \/ (a.hi = b.hi /\ a.lo < b.lo)
WLe(a, b) == a = b \/ WLt(a, b)
WMax(a, b) == IF WLt(a, b) THEN b ELSE a
WZero == W(0)
TwoPow32 == [hi |-> TwoPow16, lo |-> 0]
FitsU32(p) == p.hi >= 0 /\ p.hi < TwoPow16

\* `x as u16`, `x as u32`: the low bits
AsU16(n) == n % TwoPow16
AsU32(p) == [hi |-> p.hi % TwoPow16, lo |-> p.lo]

\* ------------------------------------------------------------------------
\* byteorder::ByteOrder, the type parameter E of every codec function
\* ------------------------------------------------------------------------
ByteOrders == {"BE", "LE"}

\* write_u16::<E> / write_u32::<E>: the bytes put on the wire
U16Bytes(E, v) ==
    IF E = "BE" THEN <<v \div 256, v % 256>> ELSE <<v % 256, v \div 256>>
U32Bytes(E, w) ==
    IF E = "BE"
    THEN <<w.hi \div 256, w.hi % 256, w.lo \div 256, w.lo % 256>>
    ELSE <<w.lo % 256, w.lo \div 256, w.hi % 256, w.hi \div 256>>

\* read_u16::<E> / read_u32::<E>: the value of the bytes read
U16Value(E, bs) == IF E = "BE" THEN bs[1] * 256 + bs[2] ELSE bs[2] * 256 + bs[1]
\* Faulty variant: the 32-bit value is read big-endian whatever E is.
U32ValueAlwaysBE(E, bs) == [hi |-> bs[1] * 256 + bs[2], lo |-> bs[3] * 256 + bs[4]]

U32Value(E, bs) ==
    IF E = "BE"
    THEN [hi |-> bs[1] * 256 + bs[2], lo |-> bs[3] * 256 + bs[4]]
    ELSE [hi |-> bs[4] * 256 + bs[3], lo |-> bs[2] * 256 + bs[1]]

\* ------------------------------------------------------------------------
\* The stream: std::io::{Read, Write, Seek}
\* ------------------------------------------------------------------------
\* A destination that never fills up.
NoLimit == [hi |-> 2 * TwoPow16, lo |-> 0]

EmptyStream(p, cap) == [data |-> << >>, len |-> WZero, pos |-> p, cap |-> cap]

Range(p, k) == {WAdd(p, i) : i \in 0..(k - 1)}

ByteAt(s, p) == IF p \in DOMAIN s.data THEN s.data[p] ELSE 0

\* Read::read_exact: n bytes from the cursor, or UnexpectedEof when the stream
\* ends first (the bytes that were there are consumed).
ReadExact(s, n) ==
    IF WLe(WAdd(s.pos, n), s.len)
    THEN [ok |-> TRUE,
          bytes |-> [i \in 1..n |-> ByteAt(s, WAdd(s.pos, i - 1))],
          s |-> [s EXCEPT !.pos = WAdd(@, n)]]
    ELSE [ok |-> FALSE,
          bytes |-> << >>,
          s |-> [s EXCEPT !.pos = WMax(s.pos, s.len)]]

\* Write::write_all: all of bs at the cursor; when the destination is full the
\* bytes that fit are written and the call fails (WriteZero).
WriteAll(s, bs) ==
    LET n == Len(bs)
        k == IF WLe(WAdd(s.pos, n), s.cap) THEN n
             ELSE IF WLt(s.pos, s.cap) THEN WSub(s.cap, s.pos)
             ELSE 0
        new == Range(s.pos, k)
    IN  [ok |-> k = n,
         s |-> [s EXCEPT
                  !.data = [p \in (DOMAIN s.data) \cup new |->
                               IF p \in new THEN bs[WSub(p, s.pos) + 1] ELSE s.data[p]],
                  !.len = IF k > 0 THEN WMax(s.len, WAdd(s.pos, k)) ELSE s.len,
                  !.pos = WAdd(s.pos, k)]]

\* Seek::seek(SeekFrom::Start(p))
SeekStart(s, p) == [s EXCEPT !.pos = p]

\* File::set_len / Vec::truncate by the stream's owner: the stream ends at t
SetLen(s, t) ==
    [s EXCEPT !.data = [p \in {q \in DOMAIN s.data : WLt(q, t)} |-> s.data[p]],
              !.len = t]

ReadU16(s, E) ==
    LET r == ReadExact(s, 2)
    IN  [ok |-> r.ok, val |-> IF r.ok THEN U16Value(E, r.bytes) ELSE 0, s |-> r.s]

ReadU32(s, E) ==
    LET r == ReadExact(s, 4)
    IN  [ok |-> r.ok, val |-> IF r.ok THEN U32Value(E, r.bytes) ELSE WZero, s |-> r.s]

WriteU16(s, E, v) == WriteAll(s, U16Bytes(E, v))
WriteU32(s, E, w) == WriteAll(s, U32Bytes(E, w))

\* ------------------------------------------------------------------------
\* RawIFDEntry
\* ------------------------------------------------------------------------
NoEntry == [tag |-> 0, tag_type |-> 0, count |-> WZero, value_or_offset |-> <<0, 0, 0, 0>>]

\* RawIFDEntry::from_reader: four reads in field order, each with `?`
EntryFromReader(s, E) ==
    LET r1 == ReadU16(s, E)
        r2 == ReadU16(r1.s, E)
        r3 == ReadU32(r2.s, E)
        r4 == ReadExact(r3.s, 4)
    IN  IF ~r1.ok THEN [ok |-> FALSE, val |-> NoEntry, s |-> r1.s]
        ELSE IF ~r2.ok THEN [ok |-> FALSE, val |-> NoEntry, s |-> r2.s]
        ELSE IF ~r3.ok THEN [ok |-> FALSE, val |-> NoEntry, s |-> r3.s]
        ELSE IF ~r4.ok THEN [ok |-> FALSE, val |-> NoEntry, s |-> r4.s]
        ELSE [ok |-> TRUE,
              val |-> [tag |-> r1.val, tag_type |-> r2.val, count |-> r3.val,
                       value_or_offset |-> r4.bytes],
              s |-> r4.s]

\* RawIFDEntry::to_writer: four writes in field order, each with `?`
EntryToWriter(s, E, e) ==
    LET w1 == WriteU16(s, E, e.tag)
        w2 == WriteU16(w1.s, E, e.tag_type)
        w3 == WriteU32(w2.s, E, e.count)
        w4 == WriteAll(w3.s, e.value_or_offset)
    IN  IF ~w1.ok THEN w1
        ELSE IF ~w2.ok THEN w2
        ELSE IF ~w3.ok THEN w3
        ELSE w4

\* ------------------------------------------------------------------------
\* RawIFD
\* ------------------------------------------------------------------------
\* for _ in 0..entry_count { entries.push(RawIFDEntry::from_reader(reader)?) }
RECURSIVE ReadEntries(_, _, _, _)
ReadEntries(s, E, n, acc) ==
    IF n = 0 THEN [ok |-> TRUE, val |-> acc, s |-> s]
    ELSE LET r == EntryFromReader(s, E)
         IN  IF ~r.ok THEN [ok |-> FALSE, val |-> << >>, s |-> r.s]
             ELSE ReadEntries(r.s, E, n - 1, Append(acc, r.val))

\* RawIFD::from_reader
IfdFromReader(s, E) ==
    LET c == ReadU16(s, E)
    IN  IF ~c.ok THEN [ok |-> FALSE, val |-> << >>, s |-> c.s]
        ELSE ReadEntries(c.s, E, c.val, << >>)

\* for entry in &self.0 { entry.to_writer(writer)?; }
RECURSIVE WriteEntries(_, _, _, _)
WriteEntries(s, E, d, i) ==
    IF i > Len(d) THEN [ok |-> TRUE, s |-> s]
    ELSE LET w == EntryToWriter(s, E, d[i])
         IN  IF ~w.ok THEN w ELSE WriteEntries(w.s, E, d, i + 1)

\* Faulty variant: the count is written before the assertion is checked.
IfdToWriterLateAssert(s, E, d) ==
    LET c == WriteU16(s, E, AsU16(Len(d)))
    IN  IF ~c.ok THEN [outcome |-> "io", s |-> c.s]
        ELSE IF ~(Len(d) < U16Max) THEN [outcome |-> "panic", s |-> c.s]
        ELSE LET w == WriteEntries(c.s, E, d, 1)
             IN  [outcome |-> IF w.ok THEN "ok" ELSE "io", s |-> w.s]

\* RawIFD::to_writer.  outcome: "ok", "io" (Err) or "panic" (the assertion)
IfdToWriter(s, E, d) ==
    IF ~(Len(d) < U16Max) THEN [outcome |-> "panic", s |-> s]
    ELSE LET c == WriteU16(s, E, AsU16(Len(d)))
         IN  IF ~c.ok THEN [outcome |-> "io", s |-> c.s]
             ELSE LET w == WriteEntries(c.s, E, d, 1)
                  IN  [outcome |-> IF w.ok THEN "ok" ELSE "io", s |-> w.s]

\* ------------------------------------------------------------------------
\* write_raw_ifds
\* ------------------------------------------------------------------------
\* `current_position as u32 + 4`: the cast keeps the low 32 bits; the addition
\* overflows when they are above 2^32 - 5, which panics in a build with
\* overflow checks and wraps around in a build without.
LinkOverflows(cur) == ~FitsU32(WAdd(AsU32(cur), 4))
\* Faulty variant: the link is the position of the link field itself (the + 4 is lost).
LinkValueOwnPosition(cur) == AsU32(cur)

LinkValue(cur) == AsU32(WAdd(AsU32(cur), 4))

\* Where the write stopped: outcome "ok", "io" (Err) or "panic"; `at` is the
\* index of the directory whose to_writer ran last (0: none).
Stop(outcome, s, at) == [outcome |-> outcome, s |-> s, at |-> at]

\* The loop of write_raw_ifds with ifd_iter.next() about to yield the i-th
\* directory.
RECURSIVE WriteLoop(_, _, _, _, _)

\* after writer.write_u32::<E>(current_position as u32 + 4)?
AfterLink(l, E, ifds, i, checks) ==
    IF ~l.ok THEN Stop("io", l.s, i)
    ELSE WriteLoop(l.s, E, ifds, i + 1, checks)

\* after ifd.to_writer::<E, W>(writer)?
AfterIfd(w, E, ifds, i, checks) ==
    IF w.outcome # "ok" THEN Stop(w.outcome, w.s, i)
    ELSE IF i < Len(ifds)
    THEN \* ifd_iter.peek().is_some(): the link to the next directory;
         \* current_position is w.s.pos
         IF checks /\ LinkOverflows(w.s.pos) THEN Stop("panic", w.s, i)
         ELSE AfterLink(WriteU32(w.s, E, LinkValue(w.s.pos)), E, ifds, i, checks)
    ELSE WriteLoop(w.s, E, ifds, i + 1, checks)

\* after writer.write_u32::<E>(0)?; break
AfterSentinel(z, at) == Stop(IF z.ok THEN "ok" ELSE "io", z.s, at)

\* Faulty variant: the sentinel is written only after a last directory, so an empty
\* chain writes nothing.
WriteLoopNoSentinelWhenEmpty(s, E, ifds, i, checks) ==
    IF i > Len(ifds)
    THEN IF Len(ifds) = 0 THEN Stop("ok", s, 0)
         ELSE AfterSentinel(WriteU32(s, E, WZero), i - 1)
    ELSE AfterIfd(IfdToWriter(s, E, ifds[i]), E, ifds, i, checks)

WriteLoop(s, E, ifds, i, checks) ==
    IF i > Len(ifds)
    THEN AfterSentinel(WriteU32(s, E, WZero), i - 1)
    ELSE AfterIfd(IfdToWriter(s, E, ifds[i]), E, ifds, i, checks)

WriteRawIfds(s, E, ifds, checks) == WriteLoop(s, E, ifds, 1, checks)

\* ------------------------------------------------------------------------
\* read_raw_ifds
\* ------------------------------------------------------------------------
\* One pass through the body of 'ifd_load.  state: "more" (loop again), "done"
\* (break), "err" (`?` returned the error); seeked: whether seek was called.
Pass(state, s, acc, seeked) == [state |-> state, s |-> s, ifds |-> acc, seeked |-> seeked]

\* Faulty variant: a directory that fails to decode ends the chain instead of failing
\* the read.
AfterFromReaderBreaksOnError(d, acc) ==
    IF ~d.ok THEN Pass("done", d.s, acc, TRUE)
    ELSE Pass("more", d.s, Append(acc, d.val), TRUE)

\* ifds.push(RawIFD::from_reader::<E, R>(reader)?)
AfterFromReader(d, acc) ==
    IF ~d.ok THEN Pass("err", d.s, acc, TRUE)
    ELSE Pass("more", d.s, Append(acc, d.val), TRUE)

\* Faulty variant: the seek is made before the offset is compared with 0.
AfterOffsetSeeksFirst(o, E, acc) ==
    IF ~o.ok THEN Pass("err", o.s, acc, FALSE)
    ELSE IF o.val = WZero THEN Pass("done", SeekStart(o.s, o.val), acc, TRUE)
    ELSE AfterFromReader(IfdFromReader(SeekStart(o.s, o.val), E), acc)

\* Faulty variant: an offset that points back at or before the cursor is refused.
AfterOffsetForwardOnly(o, E, acc) ==
    IF ~o.ok THEN Pass("err", o.s, acc, FALSE)
    ELSE IF o.val = WZero THEN Pass("done", o.s, acc, FALSE)
    ELSE IF WLe(o.val, o.s.pos) THEN Pass("err", o.s, acc, FALSE)
    ELSE AfterFromReader(IfdFromReader(SeekStart(o.s, o.val), E), acc)

\* after let next_ifd_offset = reader.read_u32::<E>()?
AfterOffset(o, E, acc) ==
    IF ~o.ok THEN Pass("err", o.s, acc, FALSE)
    ELSE IF o.val = WZero THEN Pass("done", o.s, acc, FALSE)
    ELSE AfterFromReader(IfdFromReader(SeekStart(o.s, o.val), E), acc)

ReadLoopBody(s, E, acc) == AfterOffset(ReadU32(s, E), E, acc)

\* Result<Box<[RawIFD]>, Error>
NoResult == [tag |-> "None"]
Ok(chain) == [tag |-> "Ok", ifds |-> chain]
Err(kind) == [tag |-> "Err", kind |-> kind]

\* ------------------------------------------------------------------------
\* Bounds and sample inputs
\* ------------------------------------------------------------------------
MaxDirs == 2        \* directories in a chain handed to write_raw_ifds
MaxEntries == 2     \* entries in a sample directory
MaxIfds == 4        \* passes of the read loop a run follows
TruncDepth == 10    \* bytes a truncation cuts off the end of the written chain
CountOver == 1      \* entry counts U16Max .. U16Max + CountOver are tried

\* The i-th sample entry: every field differs from entry to entry and no field
\* reads the same in both byte orders.
SampleEntry(i) ==
    [tag |-> 256 * i + (254 - i),
     tag_type |-> i + 2,
     count |-> [hi |-> U16Max - i, lo |-> i],
     value_or_offset |-> <<i, 0, 255, 16 + i>>]

DirOf(n) == [i \in 1..n |-> SampleEntry(i)]
Dirs == {DirOf(n) : n \in 0..MaxEntries}
Chains == UNION {[1..k -> Dirs] : k \in 0..MaxDirs}

\* Where the caller has the cursor when it calls write_raw_ifds: the start of
\* the stream, after an 8-byte file header, just below 2^32, and above 2^32.
StartPositions == {W(0), W(8), WAdd(TwoPow32, -18), WAdd(TwoPow32, 8)}

\* Directories around the 16-bit limit of the entry count
BigDir(n) == [i \in 1..n |-> SampleEntry(1)]
BigDirs == {BigDir(n) : n \in U16Max..(U16Max + CountOver)}
CountChains ==
    UNION {{<<b>>, <<DirOf(1), b>>, <<b, DirOf(1)>>} : b \in BigDirs}
    \cup UNION {{<<d>>, <<d, DirOf(1)>>} : d \in Dirs}

\* ------------------------------------------------------------------------
\* The layout the format prescribes for a chain written from position p:
\* count (2 bytes), entries (12 bytes each), link (4 bytes), back to back.
\* ------------------------------------------------------------------------
DirSize(d) == 2 + 12 * Len(d)

RECURSIVE SizeUpTo(_, _)
\* bytes taken by the first n directories and their link fields
SizeUpTo(c, n) == IF n = 0 THEN 0 ELSE SizeUpTo(c, n - 1) + DirSize(c[n]) + 4

ChainSize(c) == IF Len(c) = 0 THEN 4 ELSE SizeUpTo(c, Len(c))
DirStart(c, p, i) == WAdd(p, SizeUpTo(c, i - 1))
LinkPos(c, p, i) == WAdd(DirStart(c, p, i), DirSize(c[i]))

\* ------------------------------------------------------------------------
\* State
\* ------------------------------------------------------------------------
VARIABLES
    stream,           \* the caller's stream
    order,            \* the byte order E the caller instantiates the codec with
    overflow_checks,  \* whether the build panics on integer overflow
    arg,              \* the chain the caller hands to the write path
    hdr,              \* the caller wrote a link to the cursor right before it
    wop,              \* "none", "ifd" (RawIFD::to_writer) or "chain" (write_raw_ifds)
    wres,             \* outcome of the write: "none", "ok", "io", "panic"
    wat,              \* the directory whose to_writer ran last
    wstart, wend,     \* cursor at the write call and after it
    tamper,           \* what the caller did to the written bytes: "none", "patch", "trunc"
    rstate,           \* read_raw_ifds: "idle", "more", "done", "err"
    rstart,           \* cursor at the read call
    ifds,             \* the Vec the read loop accumulates
    ret,              \* what read_raw_ifds returned
    seeks             \* seek calls made by read_raw_ifds

vars == <<stream, order, overflow_checks, arg, hdr, wop, wres, wat, wstart, wend,
          tamper, rstate, rstart, ifds, ret, seeks>>

wvars == <<wop, wres, wat, wstart, wend>>
rvars == <<rstate, rstart, ifds, ret, seeks>>
cfgvars == <<order, overflow_checks, arg, hdr>>

\* The stream the caller prepared: empty with the cursor at p, or holding at
\* p - 4 a link field that points at p (the offset of the first directory in a
\* file header), the cursor left behind it.
Prepared(p, E, h, cap) ==
    IF h THEN WriteU32(EmptyStream(WAdd(p, -4), cap), E, p).s
    ELSE EmptyStream(p, cap)

InitCommon(p) ==
    /\ order \in ByteOrders
    /\ overflow_checks \in BOOLEAN
    /\ hdr \in {h \in BOOLEAN : h => (WLe(W(4), p) /\ FitsU32(p))}
    /\ wop = "none" /\ wres = "none" /\ wat = 0
    /\ wstart = p /\ wend = p
    /\ tamper = "none"
    /\ rstate = "idle" /\ rstart = p /\ ifds = << >> /\ ret = NoResult /\ seeks = 0

Init ==
    \E p \in StartPositions :
        /\ InitCommon(p)
        /\ arg \in Chains
        /\ stream = Prepared(p, order, hdr, NoLimit)

\* ------------------------------------------------------------------------
\* Actions
\* ------------------------------------------------------------------------
\* write_raw_ifds::<E, W>(writer, ifds)
WriteRawIfdsCall ==
    /\ wop = "none" /\ rstate = "idle"
    /\ LET r == WriteRawIfds(stream, order, arg, overflow_checks)
       IN  /\ stream' = r.s
           /\ wop' = "chain"
           /\ wres' = r.outcome
           /\ wat' = r.at
           /\ wstart' = stream.pos
           /\ wend' = r.s.pos
    /\ UNCHANGED <<cfgvars, tamper, rvars>>

\* RawIFD::to_writer::<E, W>(&ifd, writer), called on its own
IfdToWriterCall ==
    /\ wop = "none" /\ rstate = "idle" /\ Len(arg) > 0
    /\ LET r == IfdToWriter(stream, order, arg[1])
       IN  /\ stream' = r.s
           /\ wop' = "ifd"
           /\ wres' = r.outcome
           /\ wat' = 1
           /\ wstart' = stream.pos
           /\ wend' = r.s.pos
    /\ UNCHANGED <<cfgvars, tamper, rvars>>

\* The stream's owner overwrites the link field after directory j of the
\* written chain: seek(Start(..)) and write_u32::<E>(v).
PatchLink(j, v) ==
    /\ wop = "chain" /\ wres = "ok" /\ tamper = "none" /\ rstate = "idle"
    /\ stream' = WriteU32(SeekStart(stream, LinkPos(arg, wstart, j)), order, v).s
    /\ tamper' = "patch"
    /\ UNCHANGED <<cfgvars, wvars, rvars>>

\* The stream loses its last k written bytes (a truncated file).
Truncate(k) ==
    /\ wop = "chain" /\ tamper = "none" /\ rstate = "idle"
    /\ k <= WSub(wend, wstart)
    /\ stream' = SetLen(stream, WAdd(wend, -k))
    /\ tamper' = "trunc"
    /\ UNCHANGED <<cfgvars, wvars, rvars>>

\* Positions the caller starts read_raw_ifds at: where the cursor is, where the
\* write started, the header link, and the link fields of the written chain.
ReadPositions ==
    {stream.pos, wstart}
    \cup (IF hdr THEN {WAdd(wstart, -4)} ELSE {})
    \cup (IF wop = "chain" /\ wres = "ok"
          THEN {LinkPos(arg, wstart, j) : j \in 1..Len(arg)} ELSE {})

\* read_raw_ifds::<E, R>(reader) is entered with the cursor at p: `ifds` is new
ReadRawIfdsCall(p) ==
    /\ rstate = "idle"
    /\ stream' = SeekStart(stream, p)
    /\ rstate' = "more"
    /\ rstart' = p
    /\ ifds' = << >>
    /\ ret' = NoResult
    /\ seeks' = 0
    /\ UNCHANGED <<cfgvars, wvars, tamper>>

\* One pass of 'ifd_load; on break the function returns Ok(ifds), on `?` it
\* returns the error and drops ifds.
ReadIter ==
    /\ rstate = "more" /\ Len(ifds) < MaxIfds
    /\ LET r == ReadLoopBody(stream, order, ifds)
       IN  /\ stream' = r.s
           /\ rstate' = r.state
           /\ ifds' = IF r.state = "err" THEN << >> ELSE r.ifds
           /\ ret' = IF r.state = "done" THEN Ok(r.ifds)
                     ELSE IF r.state = "err" THEN Err("io")
                     ELSE NoResult
           /\ seeks' = seeks + (IF r.seeked THEN 1 ELSE 0)
    /\ UNCHANGED <<cfgvars, wvars, tamper, rstart>>

PatchValues ==
    {v \in {WZero} \cup {DirStart(arg, wstart, i) : i \in 1..Len(arg)} : FitsU32(v)}

Next ==
    \/ WriteRawIfdsCall
    \/ \E j \in 1..Len(arg) : \E v \in PatchValues : PatchLink(j, v)
    \/ \E k \in 1..TruncDepth : Truncate(k)
    \/ \E p \in ReadPositions : ReadRawIfdsCall(p)
    \/ ReadIter

Spec == Init /\ [][Next]_vars

\* The write path around the 16-bit limit of the entry count, on a destination
\* that may be full.
InitCount ==
    \E p \in {W(0), W(8)} :
        /\ InitCommon(p)
        /\ arg \in CountChains
        /\ \E cap \in {NoLimit, WAdd(p, 7)} : stream = Prepared(p, order, hdr, cap)

NextCount ==
    \/ IfdToWriterCall
    \/ WriteRawIfdsCall

SpecCount == InitCount /\ [][NextCount]_vars

\* ------------------------------------------------------------------------
\* Reading the stream of the current state
\* ------------------------------------------------------------------------
Available(p, n) == WLe(WAdd(p, n), stream.len)
DecodeU16At(p) == U16Value(order, [i \in 1..2 |-> ByteAt(stream, WAdd(p, i - 1))])
DecodeU32At(p) == U32Value(order, [i \in 1..4 |-> ByteAt(stream, WAdd(p, i - 1))])
DecodeEntryAt(p) ==
    [tag |-> DecodeU16At(p),
     tag_type |-> DecodeU16At(WAdd(p, 2)),
     count |-> DecodeU32At(WAdd(p, 4)),
     value_or_offset |-> [i \in 1..4 |-> ByteAt(stream, WAdd(p, 7 + i))]]

HeaderPos == WAdd(wstart, -4)
Finished == rstate \in {"done", "err"}

\* write_raw_ifds returned Ok and the caller left the written bytes alone
Untouched == wop = "chain" /\ wres = "ok" /\ tamper = "none"

\* The reader was started on the caller's link field that points at the
\* written, non-empty chain, all of it below 2^32.
HeaderLinked ==
    /\ Untouched /\ hdr /\ Len(arg) >= 1 /\ WLt(wend, TwoPow32)
    /\ rstate # "idle" /\ rstart = HeaderPos

\* ------------------------------------------------------------------------
\* C1  Round trip
\* ------------------------------------------------------------------------
\* C1 as stated: after write_raw_ifds(C) from a start position, read_raw_ifds
\* begun at that same start position ends with Ok(C).
C1_RoundTripFromStart ==
    (Untouched /\ Finished /\ rstart = wstart)
        => (rstate = "done" /\ ret = Ok(arg))

\* C1 amended: the empty chain is read back from the position it was written
\* at; a non-empty chain written at P (ending below 2^32) is read back as C
\* when read_raw_ifds is begun on a 4-byte link field that holds P.
C1_RoundTripAmended ==
    (/\ Untouched /\ Finished
     /\ \/ arg = << >> /\ rstart = wstart
        \/ arg # << >> /\ hdr /\ rstart = HeaderPos /\ WLt(wend, TwoPow32))
        => (rstate = "done" /\ ret = Ok(arg))

C1_Witness ==
    /\ Untouched /\ hdr /\ rstart = HeaderPos /\ rstate = "done"
    /\ Len(arg) = 2 /\ Len(arg[1]) = 2 /\ Len(arg[2]) = 1
    /\ order = "LE" /\ ret = Ok(arg)

\* ------------------------------------------------------------------------
\* C2  Chain linkage
\* ------------------------------------------------------------------------
DirAsLaidOut(i) ==
    LET at == DirStart(arg, wstart, i)
    IN  /\ DecodeU16At(at) = Len(arg[i])
        /\ \A j \in 1..Len(arg[i]) :
               DecodeEntryAt(WAdd(at, 2 + 12 * (j - 1))) = arg[i][j]
        /\ DecodeU32At(LinkPos(arg, wstart, i)) =
               IF i < Len(arg) THEN DirStart(arg, wstart, i + 1) ELSE WZero

\* C2: after write_raw_ifds on a chain of more than one directory the
\* directories lie back to back from the start position, the field after each
\* but the last holds the absolute position of the next directory's count
\* field, the field after the last is 0, and nothing follows it.
C2_ChainLinkage ==
    (Untouched /\ rstate = "idle" /\ Len(arg) > 1)
        => /\ wend = WAdd(wstart, ChainSize(arg))
           /\ stream.pos = wend /\ stream.len = wend
           /\ \A i \in 1..Len(arg) : DirAsLaidOut(i)

\* ------------------------------------------------------------------------
\* C9  Link offset arithmetic
\* ------------------------------------------------------------------------
\* C9: for every position the writer can be at, the link written after a
\* directory that is not the last is the position after its entries plus 4,
\* not truncated and not wrapped around, and so never 0.
C9_LinkArithmetic ==
    Untouched =>
        \A i \in 1..(Len(arg) - 1) :
            LET l == DecodeU32At(LinkPos(arg, wstart, i))
            IN  l = WAdd(LinkPos(arg, wstart, i), 4) /\ l # WZero

\* ------------------------------------------------------------------------
\* C10  Header-linked round trip
\* ------------------------------------------------------------------------
\* C10: begun on a link field that holds the non-zero position P of a written
\* chain of at least one directory (ending below 2^32), read_raw_ifds never
\* fails, has decoded a prefix of the chain with one seek per directory, sits
\* on the link field the writer wrote after the last directory it decoded,
\* meets the zero sentinel after the last one, and returns the chain.
C10_HeaderLinkedRoundTrip ==
    HeaderLinked =>
        /\ rstate \in {"more", "done"}
        /\ Len(ifds) <= Len(arg)
        /\ ifds = SubSeq(arg, 1, Len(ifds))
        /\ seeks = Len(ifds)
        /\ rstate = "more" =>
               /\ stream.pos = IF ifds = << >> THEN rstart
                               ELSE LinkPos(arg, wstart, Len(ifds))
               /\ Len(ifds) = Len(arg) => DecodeU32At(stream.pos) = WZero
               /\ Len(ifds) < MaxIfds
        /\ rstate = "done" => ret = Ok(arg)

C10_Witness ==
    /\ HeaderLinked /\ rstate = "done" /\ ret = Ok(arg)
    /\ Len(arg) = 2 /\ Len(arg[2]) = 2
    /\ wstart = W(8) /\ order = "BE" /\ seeks = 2

\* ------------------------------------------------------------------------
\* C5  Empty chain
\* ------------------------------------------------------------------------
\* C5: write_raw_ifds on the empty chain succeeds, writes four zero bytes at
\* the cursor and nothing else, and leaves the cursor 4 further; read_raw_ifds
\* begun at the position of those bytes returns the empty chain.
C5_EmptyChain ==
    /\ [][(wop = "none" /\ wop' = "chain" /\ arg = << >>) =>
            /\ wres' = "ok"
            /\ stream'.pos = WAdd(stream.pos, 4)
            /\ stream'.len = WMax(stream.len, WAdd(stream.pos, 4))
            /\ DOMAIN stream'.data = (DOMAIN stream.data) \cup Range(stream.pos, 4)
            /\ \A p \in DOMAIN stream'.data :
                   stream'.data[p] = IF p \in Range(stream.pos, 4) THEN 0
                                     ELSE stream.data[p]]_vars
    /\ []((Untouched /\ arg = << >> /\ rstart = wstart /\ Finished)
            => (rstate = "done" /\ ret = Ok(<< >>) /\ seeks = 0))

C5_Witness ==
    /\ Untouched /\ arg = << >> /\ rstart = wstart /\ rstate = "done"
    /\ wend = WAdd(wstart, 4) /\ ret = Ok(<< >>)

\* ------------------------------------------------------------------------
\* C8  Zero first offset
\* ------------------------------------------------------------------------
\* C8: when the four bytes at the read position decode to 0, read_raw_ifds
\* returns the empty chain after one pass, without a seek, the cursor 4 bytes
\* past the read position.
C8_ZeroFirstOffset ==
    (rstate # "idle" /\ Available(rstart, 4) /\ DecodeU32At(rstart) = WZero)
        => \/ /\ rstate = "more" /\ ifds = << >> /\ seeks = 0
              /\ stream.pos = rstart /\ ret = NoResult
           \/ /\ rstate = "done" /\ ret = Ok(<< >>) /\ seeks = 0
              /\ stream.pos = WAdd(rstart, 4)

C8_Witness ==
    /\ rstate = "done" /\ Available(rstart, 4) /\ DecodeU32At(rstart) = WZero
    /\ wop = "chain" /\ Len(arg) = 2 /\ rstart = LinkPos(arg, wstart, 2)
    /\ stream.pos = WAdd(rstart, 4)

\* ------------------------------------------------------------------------
\* C6  Atomic read failure
\* ------------------------------------------------------------------------
\* The written chain (all of it below 2^32) lost its end, and the reader was
\* started where an intact chain reads back: on the header link of a non-empty
\* chain, or on the sentinel of the empty one.
TruncatedRead ==
    /\ wop = "chain" /\ wres = "ok" /\ tamper = "trunc" /\ WLt(wend, TwoPow32)
    /\ rstate # "idle"
    /\ \/ arg = << >> /\ rstart = wstart
       \/ arg # << >> /\ hdr /\ rstart = HeaderPos

\* The pass that read_raw_ifds is about to make meets the end of the stream
\* inside the link field at the cursor, inside the count field the link points
\* at, or inside one of the entries that count announces.
EndsInsideField ==
    /\ rstate = "more"
    /\ \/ ~Available(stream.pos, 4)
       \/ LET l == DecodeU32At(stream.pos)
          IN  /\ l # WZero
              /\ \/ ~Available(l, 2)
                 \/ ~Available(WAdd(l, 2), 12 * DecodeU16At(l))

\* C6: when the stream ends inside a link field, a count field or an entry,
\* the pass that meets the end makes read_raw_ifds return the error and drop
\* what it had decoded; on a truncated chain it never returns a chain, and
\* holds only complete directories while it runs.
C6_AtomicReadFailure ==
    /\ [][EndsInsideField => (rstate' = "err" /\ ret' = Err("io") /\ ifds' = << >>)]_vars
    /\ [](TruncatedRead =>
            /\ rstate # "done"
            /\ ret.tag # "Ok"
            /\ rstate = "more" =>
                   /\ ret = NoResult
                   /\ Len(ifds) <= Len(arg) /\ ifds = SubSeq(arg, 1, Len(ifds))
                   /\ Len(ifds) < MaxIfds
            /\ rstate = "err" => (ret = Err("io") /\ ifds = << >>))

\* The stream ends after 8 of the 12 bytes of the first entry of the second
\* directory; the first directory was decoded before the fault.
C6_Witness ==
    /\ TruncatedRead /\ rstate = "err" /\ ret = Err("io")
    /\ Len(arg) = 2 /\ Len(arg[2]) = 1 /\ seeks = 2
    /\ stream.len = WAdd(DirStart(arg, wstart, 2), 2 + 8)

\* ------------------------------------------------------------------------
\* C7  No cycle detection
\* ------------------------------------------------------------------------
\* The directory of the written chain that the link field at p points at
\* (0: the field holds 0 or points at no directory).
LinkTarget(p) ==
    LET l == DecodeU32At(p)
        hits == {i \in 1..Len(arg) : DirStart(arg, wstart, i) = l}
    IN  IF l = WZero \/ hits = {} THEN 0 ELSE CHOOSE i \in hits : TRUE

\* Following the links from directory i leads through n more directories.
RECURSIVE Follows(_, _)
Follows(i, n) ==
    IF i = 0 THEN FALSE
    ELSE IF n = 0 THEN TRUE
    ELSE Follows(LinkTarget(LinkPos(arg, wstart, i)), n - 1)

\* The links from the field at p never end: they lead through more
\* directories than the chain has, so one of them is visited twice.
CyclicFrom(p) ==
    /\ wop = "chain" /\ wres = "ok" /\ WLt(wend, TwoPow32)
    /\ Available(p, 4)
    /\ Follows(LinkTarget(p), Len(arg))

\* C7: on a stream whose links form a cycle read_raw_ifds neither finishes nor
\* fails; each pass seeks and appends one more directory.
C7_NoCycleDetection ==
    /\ []((rstate # "idle" /\ CyclicFrom(rstart))
            => (rstate = "more" /\ ret = NoResult /\ seeks = Len(ifds)))
    /\ [][(rstate = "more" /\ CyclicFrom(rstart))
            => (Len(ifds') = Len(ifds) + 1 /\ rstate' = "more")]_vars

C7_Witness ==
    /\ rstate = "more" /\ CyclicFrom(rstart) /\ tamper = "patch"
    /\ Len(arg) = 2 /\ Len(ifds) = MaxIfds

\* ------------------------------------------------------------------------
\* C3, C4  The 16-bit entry count
\* ------------------------------------------------------------------------
\* C3: RawIFD::to_writer accepts every directory of at most 65535 entries and
\* writes its count, unchanged, and then its entries in order.
C3_AcceptsUpToU16Max ==
    (wop = "ifd" /\ stream.cap = NoLimit /\ Len(arg[1]) <= U16Max)
        => /\ wres = "ok"
           /\ wend = WAdd(wstart, DirSize(arg[1]))
           /\ DecodeU16At(wstart) = Len(arg[1])
           /\ \A j \in 1..Len(arg[1]) :
                  DecodeEntryAt(WAdd(wstart, 2 + 12 * (j - 1))) = arg[1][j]

\* C4: when to_writer is called, directly or by write_raw_ifds, on a directory
\* of 65536 entries or more, the outcome is the assertion failure, not an I/O
\* error, and nothing of that directory reaches the stream: the stream ends
\* where the directory would have started.  On a destination that is not full
\* write_raw_ifds gets to the first such directory of its chain.
C4_CountOverflow ==
    /\ (wop # "none" /\ wat >= 1 /\ Len(arg[wat]) > U16Max)
        => /\ wres = "panic"
           /\ wend = DirStart(arg, wstart, wat)
           /\ stream.pos = wend
           /\ \A p \in DOMAIN stream.data : WLt(p, wend)
           /\ WLe(stream.len, wend)
    /\ (wop = "chain" /\ stream.cap = NoLimit)
        => \A i \in 1..Len(arg) :
               (Len(arg[i]) > U16Max /\ \A j \in 1..(i - 1) : Len(arg[j]) < U16Max)
                   => (wres = "panic" /\ wat = i)

C4_Witness ==
    /\ wop = "chain" /\ wres = "panic" /\ wat = 2
    /\ Len(arg[2]) = U16Max + 1
    /\ wend = WAdd(wstart, DirSize(arg[1]) + 4)

====
